---- MODULE Spec2Model ----
(***************************************************************************)
(* Model of backend/server.js: an Express application with two routes.     *)
(*   GET  /api/financial-data   sends the in-memory record                 *)
(*   POST /api/chat             validates, filters the record by the       *)
(*                              caller's permissions, sums assets and      *)
(*                              liabilities, renders a prompt, calls the   *)
(*                              generation provider and relays its text    *)
(* The chat handler is an async function: it runs without interruption up  *)
(* to `await model.generateContent(...)` (line 89), is resumed when that   *)
(* promise settles, suspends once more at `await result.response` (line    *)
(* 90) and then runs to the end.  Each of these segments is one action.    *)
(*                                                                         *)
(* JavaScript values are tagged with their typeof, [t |-> ..., v |-> ...], *)
(* so that property lookup through Object.prototype and JSON.stringify's   *)
(* dropping of function-valued properties are modelled as they behave.     *)
(* An optional value (a request field that may be absent, a local not yet  *)
(* assigned) is a sequence of length 0 or 1.                               *)
(***************************************************************************)
EXTENDS Integers, Sequences, FiniteSets, TLC

VARIABLES mockFinancialData, reqs, lastGet

vars == <<mockFinancialData, reqs, lastGet>>

\* Number of POST /api/chat invocations that may be alive at the same time.
NumReq == 2

Reqs == 1..NumReq

-----------------------------------------------------------------------------
\* The record built at lines 26-40.  An object literal is the sequence of its
\* entries in insertion order (the order Object.values enumerates).

AssetsPayload ==
    << [k |-> "cash", v |-> 25000], [k |-> "bankBalance", v |-> 350000],
       [k |-> "property", v |-> 4500000], [k |-> "otherAssets", v |-> 80000] >>

LiabilitiesPayload ==
    << [k |-> "homeLoan", v |-> 3200000], [k |-> "carLoan", v |-> 450000],
       [k |-> "creditCardDebt", v |-> 75000], [k |-> "otherDebts", v |-> 20000] >>

TransactionsPayload ==
    << [id |-> 1, date |-> "2025-09-10", amount |-> -12000, category |-> "Groceries", type |-> "expense"],
       [id |-> 2, date |-> "2025-09-08", amount |-> -4500, category |-> "Utilities", type |-> "expense"],
       [id |-> 3, date |-> "2025-09-05", amount |-> 85000, category |-> "Salary", type |-> "income"],
       [id |-> 4, date |-> "2025-08-25", amount |-> -20000, category |-> "Rent", type |-> "expense"],
       [id |-> 5, date |-> "2025-08-20", amount |-> -3500, category |-> "Dining Out", type |-> "expense"],
       [id |-> 6, date |-> "2025-08-05", amount |-> 85000, category |-> "Salary", type |-> "income"] >>

EpfBalancePayload ==
    << [k |-> "currentBalance", v |-> 650000], [k |-> "monthlyContribution", v |-> 5800],
       [k |-> "employerMatch", v |-> 5800] >>

CreditScorePayload == [score |-> 780, rating |-> "Excellent"]

InvestmentsPayload ==
    << [k |-> "stocks", v |-> 450000], [k |-> "mutualFunds", v |-> 220000],
       [k |-> "bonds", v |-> 150000], [k |-> "others", v |-> 50000] >>

Categories ==
    {"assets", "liabilities", "transactions", "epfBalance", "creditScore", "investments"}

InitialFinancialData ==
    [k \in Categories |->
        CASE k = "assets" -> AssetsPayload
          [] k = "liabilities" -> LiabilitiesPayload
          [] k = "transactions" -> TransactionsPayload
          [] k = "epfBalance" -> EpfBalancePayload
          [] k = "creditScore" -> CreditScorePayload
          [] k = "investments" -> InvestmentsPayload]

-----------------------------------------------------------------------------
\* JavaScript values and property lookup.

Obj(payload) == [t |-> "object", v |-> payload]
Fn(name) == [t |-> "function", v |-> name]
Undefined == [t |-> "undefined", v |-> ""]

\* Properties every plain object inherits from Object.prototype; all of them
\* are functions.  `obj[key]` finds them when obj has no own property `key`.
ObjectPrototypeKeys == {"constructor", "toString", "valueOf", "hasOwnProperty"}

\* obj[key] for a plain object whose own properties all hold objects:
\* own property first, then the prototype chain, else undefined.
Get(obj, key) ==
    IF key \in DOMAIN obj THEN Obj(obj[key])
    ELSE IF key \in ObjectPrototypeKeys THEN Fn(key)
    ELSE Undefined

\* accessibleData.assets: accessibleData's own properties hold tagged values.
GetOwnOrProto(view, key) ==
    IF key \in DOMAIN view THEN view[key]
    ELSE IF key \in ObjectPrototypeKeys THEN Fn(key)
    ELSE Undefined

\* ToBoolean of a tagged value: objects and functions are truthy.
Truthy(x) == x.t # "undefined"

-----------------------------------------------------------------------------
\* The synchronous part of the chat handler, lines 52-87, as pure operators.

\* A slip at line 54: `query === undefined` in place of `!query`.
IsInvalid_undefinedOnly(q, p) == q = <<>> \/ p = <<>>

\* Line 54: !query || !permissions.  q and p are the optional body fields.
IsInvalid(q, p) == q = <<>> \/ q[1] = "" \/ p = <<>>

\* Lines 58-63: accessibleData after the forEach over Object.keys(permissions).
AccessibleData(permissions, data) ==
    [key \in {k \in DOMAIN permissions : permissions[k] /\ Truthy(Get(data, k))}
        |-> Get(data, key)]

\* Object.values of an object literal: its values in insertion order.
ObjectValues(obj) == [i \in DOMAIN obj |-> obj[i].v]

\* vals.reduce((sum, val) => sum + val, 0), a left fold starting at index i.
RECURSIVE ReduceSum(_, _, _)
ReduceSum(vals, i, sum) ==
    IF i > Len(vals) THEN sum ELSE ReduceSum(vals, i + 1, sum + vals[i])

\* A slip at line 66: the total read from mockFinancialData.assets.
TotalAssets_fromFullRecord(accessibleData) ==
    ReduceSum(ObjectValues(mockFinancialData["assets"]), 1, 0)

\* Line 66.
TotalAssets(accessibleData) ==
    LET assets == GetOwnOrProto(accessibleData, "assets")
    IN  IF Truthy(assets) THEN ReduceSum(ObjectValues(assets.v), 1, 0) ELSE 0

\* Line 67.
TotalLiabilities(accessibleData) ==
    LET liabilities == GetOwnOrProto(accessibleData, "liabilities")
    IN  IF Truthy(liabilities) THEN ReduceSum(ObjectValues(liabilities.v), 1, 0) ELSE 0

\* A slip at line 68: the liabilities added.
NetWorth_sum(totalAssets, totalLiabilities) == totalAssets + totalLiabilities

\* Line 68.
NetWorth(totalAssets, totalLiabilities) == totalAssets - totalLiabilities

\* Lines 71-78: { ...accessibleData, summary: {...} }; the summary property is
\* written last and so replaces a spread property of the same name.
DataForAI(accessibleData, totalAssets, totalLiabilities, netWorth) ==
    [k \in DOMAIN accessibleData \cup {"summary"} |->
        IF k = "summary"
        THEN Obj([totalAssets |-> totalAssets,
                  totalLiabilities |-> totalLiabilities,
                  calculatedNetWorth |-> netWorth])
        ELSE accessibleData[k]]

\* JSON.stringify of an object: properties whose value is a function or
\* undefined are omitted, the others are written out.  The text is kept as
\* the mapping it denotes (key order is not modelled).
JSONStringify(obj) ==
    [k \in {j \in DOMAIN obj : obj[j].t = "object"} |-> obj[k].v]

\* Lines 80-83 (abridged to its sentences' subjects).
SystemPrompt ==
    << "You are a friendly and insightful AI personal finance assistant.",
       "CRITICAL RULE: use the pre-calculated values from the 'summary' object",
       "All financial values are in Indian Rupees (INR)",
       "Base your answers ONLY on the data provided. Today's date is September 13, 2025." >>

\* Line 85.
UserPrompt(dataForAI, query) ==
    [data |-> JSONStringify(dataForAI), question |-> query]

\* Line 87.
FullPrompt(dataForAI, query) ==
    [system |-> SystemPrompt, user |-> UserPrompt(dataForAI, query)]

\* Line 55.
BadRequest ==
    [status |-> 400, body |-> [error |-> "Query and permissions are required."]]

\* A slip at line 93: `response` sent in place of `text`.
Success_sendsResponseObject(text) ==
    [status |-> 200, body |-> [response |-> "[object Object]"]]

\* Line 93; res.json leaves the status at its default, 200.
Success(text) == [status |-> 200, body |-> [response |-> text]]

\* A slip at line 97: error.message sent to the caller.
ServerError_leaksMessage(error) == [status |-> 500, body |-> [error |-> error]]

\* Line 97.  The caught error is not used in the response.
ServerError(error) ==
    [status |-> 500, body |-> [error |-> "An error occurred while processing your request."]]

-----------------------------------------------------------------------------
\* Request bodies and provider behaviours drawn on by the actions.

NetWorthQuestion == "What is my net worth?"

\* query: absent, the empty string, or a question.
Queries == {<<>>, <<"">>, <<NetWorthQuestion>>}

\* Keys a caller may put in permissions: the record's categories, a name
\* Object.prototype defines, and a name nothing defines.
PermKeys == Categories \cup {"constructor", "salary"}

\* Largest number of keys in a permissions map.
MaxPermKeys == 3

PermissionMaps ==
    UNION {[S -> BOOLEAN] : S \in {T \in SUBSET PermKeys : Cardinality(T) <= MaxPermKeys}}

\* permissions: absent, or a map from keys to booleans.
Permissions == {<<>>} \cup {<<m>> : m \in PermissionMaps}

\* Bodies used when several requests are in flight together.
ConcBodies ==
    { [query |-> <<NetWorthQuestion>>,
       permissions |-> <<[k \in {"assets", "liabilities"} |-> TRUE]>>],
      [query |-> <<"How much do I owe?">>,
       permissions |-> <<[k \in {"assets", "liabilities"} |-> k = "liabilities"]>>],
      [query |-> <<"What is my credit score?">>,
       permissions |-> <<[k \in {"creditScore", "constructor"} |-> TRUE]>>],
      [query |-> <<>>, permissions |-> <<>>] }

ProviderTexts == {"Your net worth is 1210000.", "I cannot tell from the data provided."}
ProviderErrors == {"429 quota exceeded for key", "fetch failed: ECONNRESET"}

\* What model.generateContent resolves with (a rejection is recorded in the
\* same field as [kind |-> "generateRejects", v |-> error]): a result whose response yields
\* a text, whose response promise rejects, or whose text() throws.
GenerateResults ==
    {[kind |-> "text", v |-> t] : t \in ProviderTexts}
    \cup {[kind |-> k, v |-> e] : k \in {"responseRejects", "textThrows"}, e \in ProviderErrors}

-----------------------------------------------------------------------------
\* One invocation of the chat handler: its position, the request body, its
\* locals, the prompts it passed to model.generateContent, what the provider
\* gave back, what it wrote with console.error and the response it sent.

IdleSlot ==
    [pc |-> "idle", query |-> <<>>, permissions |-> <<>>,
     accessibleData |-> <<>>, totalAssets |-> 0, totalLiabilities |-> 0, netWorth |-> 0,
     calls |-> <<>>, result |-> <<>>, logged |-> <<>>, res |-> <<>>]

\* Lines 52-89: the handler from entry to its first suspension (or to the
\* 400 response), as the invocation's state afterwards.
ChatSlot(q, p, data) ==
    IF IsInvalid(q, p)
    THEN [IdleSlot EXCEPT !.pc = "done", !.query = q, !.permissions = p,
                          !.res = <<BadRequest>>]
    ELSE LET accessibleData == AccessibleData(p[1], data)
             totalAssets == TotalAssets(accessibleData)
             totalLiabilities == TotalLiabilities(accessibleData)
             netWorth == NetWorth(totalAssets, totalLiabilities)
             dataForAI == DataForAI(accessibleData, totalAssets, totalLiabilities, netWorth)
         IN  [IdleSlot EXCEPT !.pc = "awaitGenerate", !.query = q, !.permissions = p,
                              !.accessibleData = accessibleData,
                              !.totalAssets = totalAssets,
                              !.totalLiabilities = totalLiabilities,
                              !.netWorth = netWorth,
                              !.calls = <<FullPrompt(dataForAI, q[1])>>]

Init ==
    /\ mockFinancialData = InitialFinancialData
    /\ reqs = [r \in Reqs |-> IdleSlot]
    /\ lastGet = <<>>

\* Lines 45-47.
GetFinancialData ==
    /\ lastGet' = <<[status |-> 200, body |-> mockFinancialData]>>
    /\ UNCHANGED <<mockFinancialData, reqs>>

\* A slip at lines 58-63: the record itself stripped of what is not permitted.
ChatReceive_filtersInPlace(r, q, p) ==
    /\ reqs[r].pc = "idle"
    /\ reqs' = [reqs EXCEPT ![r] = ChatSlot(q, p, mockFinancialData)]
    /\ mockFinancialData' =
          IF IsInvalid(q, p) THEN mockFinancialData
          ELSE [k \in {j \in DOMAIN mockFinancialData : j \in DOMAIN p[1] /\ p[1][j]}
                  |-> mockFinancialData[k]]
    /\ UNCHANGED lastGet

\* Lines 50-89: a POST /api/chat with body {query: q, permissions: p} arrives.
ChatReceive(r, q, p) ==
    /\ reqs[r].pc = "idle"
    /\ reqs' = [reqs EXCEPT ![r] = ChatSlot(q, p, mockFinancialData)]
    /\ UNCHANGED <<mockFinancialData, lastGet>>

\* A slip at lines 95-98: one more attempt before giving up.
GenerateRejects_retries(r, error) ==
    /\ reqs[r].pc = "awaitGenerate"
    /\ IF Len(reqs[r].calls) < 2
       THEN reqs' = [reqs EXCEPT ![r].calls = Append(@, @[1])]
       ELSE reqs' = [reqs EXCEPT ![r].pc = "done",
                                 ![r].result = <<[kind |-> "generateRejects", v |-> error]>>,
                                 ![r].logged = <<error>>,
                                 ![r].res = <<ServerError(error)>>]
    /\ UNCHANGED <<mockFinancialData, lastGet>>

\* Lines 89, 95-98: the generateContent promise rejects with `error`.
GenerateRejects(r, error) ==
    /\ reqs[r].pc = "awaitGenerate"
    /\ reqs' = [reqs EXCEPT ![r].pc = "done",
                            ![r].result = <<[kind |-> "generateRejects", v |-> error]>>,
                            ![r].logged = <<error>>,
                            ![r].res = <<ServerError(error)>>]
    /\ UNCHANGED <<mockFinancialData, lastGet>>

\* Lines 89-90: the promise resolves; the handler stores the result and
\* suspends at `await result.response`.
GenerateResolves(r, result) ==
    /\ reqs[r].pc = "awaitGenerate"
    /\ reqs' = [reqs EXCEPT ![r].pc = "awaitResponse", ![r].result = <<result>>]
    /\ UNCHANGED <<mockFinancialData, lastGet>>

\* A slip at line 89: `result` declared at module level, so that a resumed
\* handler reads what another invocation stored.
Result_shared(r) ==
    reqs[CHOOSE s \in Reqs :
            /\ reqs[s].pc = "awaitResponse"
            /\ \A o \in Reqs : reqs[o].pc = "awaitResponse" => o <= s].result[1]

\* Line 89: `const result` is a binding of the invocation.
Result(r) == reqs[r].result[1]

\* Lines 90-98: the handler resumes and finishes.
ChatResume(r) ==
    /\ reqs[r].pc = "awaitResponse"
    /\ LET result == Result(r)
       IN  IF result.kind = "text"
           THEN reqs' = [reqs EXCEPT ![r].pc = "done", ![r].res = <<Success(result.v)>>]
           ELSE reqs' = [reqs EXCEPT ![r].pc = "done",
                                     ![r].logged = <<result.v>>,
                                     ![r].res = <<ServerError(result.v)>>]
    /\ UNCHANGED <<mockFinancialData, lastGet>>

\* The response has been sent; the invocation's locals are unreachable.
Discard(r) ==
    /\ reqs[r].pc = "done"
    /\ reqs' = [reqs EXCEPT ![r] = IdleSlot]
    /\ UNCHANGED <<mockFinancialData, lastGet>>

\* Requests served one at a time, over every body in Queries x Permissions.
Next ==
    \/ GetFinancialData
    \/ \E q \in Queries, p \in Permissions : ChatReceive(1, q, p)
    \/ \E error \in ProviderErrors : GenerateRejects(1, error)
    \/ \E result \in GenerateResults : GenerateResolves(1, result)
    \/ ChatResume(1)
    \/ Discard(1)

Spec == Init /\ [][Next]_vars

\* Up to NumReq requests in flight, resumed in any order.
NextConc ==
    \/ GetFinancialData
    \/ \E r \in Reqs, b \in ConcBodies : ChatReceive(r, b.query, b.permissions)
    \/ \E r \in Reqs, error \in ProviderErrors : GenerateRejects(r, error)
    \/ \E r \in Reqs, result \in GenerateResults : GenerateResolves(r, result)
    \/ \E r \in Reqs : ChatResume(r)
    \/ \E r \in Reqs : Discard(r)

SpecConc == Init /\ [][NextConc]_vars

-----------------------------------------------------------------------------
\* Properties.  They are stated in terms of the request body, the record as
\* built at start-up and the messages exchanged, not the handler's operators.

Received(r) == reqs[r].pc # "idle"
QueryMissing(r) == reqs[r].query = <<>> \/ reqs[r].query = <<"">>
PermissionsMissing(r) == reqs[r].permissions = <<>>
Validated(r) == Received(r) /\ ~QueryMissing(r) /\ ~PermissionsMissing(r)
Status(r) == reqs[r].res[1].status

\* The categories the request's permissions mark true.
PermittedCategories(r) ==
    {k \in Categories :
        k \in DOMAIN reqs[r].permissions[1] /\ reqs[r].permissions[1][k] = TRUE}

\* The sum of an object's amounts, last entry first.
RECURSIVE SumOfAmounts(_)
SumOfAmounts(entries) ==
    IF entries = <<>> THEN 0
    ELSE entries[Len(entries)].v + SumOfAmounts(SubSeq(entries, 1, Len(entries) - 1))

GenericError == "An error occurred while processing your request."

\* What the provider did for request r.
Outcome(r) == reqs[r].result[1]
ProviderFailed(r) == reqs[r].result # <<>> /\ Outcome(r).kind # "text"
ProviderSucceeded(r) == reqs[r].result # <<>> /\ Outcome(r).kind = "text"

\* The summary object inside the prompt request r passed to the provider.
PromptSummary(r) == reqs[r].calls[1].user.data["summary"]

\* C1: a request whose query is empty or absent, or whose permissions is
\* absent, is answered 400 with a body {error: string}, and the provider is
\* not called for it.
C1_MissingFieldsGive400 ==
    \A r \in Reqs :
        (Received(r) /\ (QueryMissing(r) \/ PermissionsMissing(r))) =>
            /\ reqs[r].pc = "done"
            /\ Status(r) = 400
            /\ DOMAIN reqs[r].res[1].body = {"error"}
            /\ reqs[r].res[1].body.error \in STRING
            /\ reqs[r].calls = <<>>

\* The body {} has been received and answered 400.
C1_Witness ==
    /\ Received(1) /\ reqs[1].query = <<>> /\ reqs[1].permissions = <<>>
    /\ reqs[1].res # <<>> /\ Status(1) = 400

\* C2: when the provider call of a validated request fails (generateContent
\* rejects, the response rejects, or text() throws), the response is 500
\* with the fixed generic body, whatever the error was.
C2_ProviderFailureGivesGeneric500 ==
    \A r \in Reqs :
        (Validated(r) /\ reqs[r].pc = "done" /\ ProviderFailed(r)) =>
            reqs[r].res = <<[status |-> 500, body |-> [error |-> GenericError]]>>

C2_Witness ==
    /\ Validated(1) /\ reqs[1].pc = "done"
    /\ reqs[1].result # <<>> /\ Outcome(1).kind = "textThrows"
    /\ Status(1) = 500

\* C3: when the provider call of a validated request succeeds, the response
\* is 200 with body {response: t}, t being the provider's text unchanged.
C3_SuccessRelaysText ==
    \A r \in Reqs :
        (Validated(r) /\ reqs[r].pc = "done" /\ ProviderSucceeded(r)) =>
            reqs[r].res = <<[status |-> 200, body |-> [response |-> Outcome(r).v]]>>

C3_Witness ==
    /\ Validated(1) /\ reqs[1].pc = "done" /\ ProviderSucceeded(1)
    /\ Status(1) = 200

\* C4: accessibleData holds exactly the keys that permissions marks true and
\* that are categories of the record, each with the category's full payload;
\* no other key is present in it.
C4_FilteredViewIsPermittedCategories ==
    \A r \in Reqs :
        Validated(r) =>
            /\ DOMAIN reqs[r].accessibleData = PermittedCategories(r)
            /\ \A k \in PermittedCategories(r) :
                   reqs[r].accessibleData[k].v = InitialFinancialData[k]

\* C5: when every category is false or absent in permissions, accessibleData
\* is empty and the summary is 0, 0, 0.
C5_NothingPermittedGivesEmptyView ==
    \A r \in Reqs :
        (Validated(r) /\ PermittedCategories(r) = {}) =>
            /\ DOMAIN reqs[r].accessibleData = {}
            /\ PromptSummary(r) =
                   [totalAssets |-> 0, totalLiabilities |-> 0, calculatedNetWorth |-> 0]

\* C6: the prompt's summary has totalAssets = the sum of the assets amounts
\* if assets is in accessibleData and 0 otherwise, totalLiabilities likewise,
\* calculatedNetWorth = totalAssets - totalLiabilities, and these are the
\* values the handler computed.
C6_SummaryFromFilteredView ==
    \A r \in Reqs :
        Validated(r) =>
            /\ PromptSummary(r).totalAssets =
                   IF "assets" \in DOMAIN reqs[r].accessibleData
                   THEN SumOfAmounts(InitialFinancialData["assets"]) ELSE 0
            /\ PromptSummary(r).totalLiabilities =
                   IF "liabilities" \in DOMAIN reqs[r].accessibleData
                   THEN SumOfAmounts(InitialFinancialData["liabilities"]) ELSE 0
            /\ PromptSummary(r).calculatedNetWorth =
                   PromptSummary(r).totalAssets - PromptSummary(r).totalLiabilities
            /\ PromptSummary(r) =
                   [totalAssets |-> reqs[r].totalAssets,
                    totalLiabilities |-> reqs[r].totalLiabilities,
                    calculatedNetWorth |-> reqs[r].netWorth]

\* Only liabilities permitted: totalAssets 0, net worth -3745000.
C6_Witness ==
    /\ Validated(1)
    /\ "liabilities" \in DOMAIN reqs[1].accessibleData
    /\ "assets" \notin DOMAIN reqs[1].accessibleData
    /\ PromptSummary(1).totalAssets = 0
    /\ PromptSummary(1).calculatedNetWorth = -3745000

\* C7: "What is my net worth?" with permissions {assets: true, liabilities:
\* true} passes the provider a prompt whose summary is 4955000, 3745000,
\* 1210000, whatever the provider then does.
C7_NetWorthExample ==
    \A r \in Reqs :
        (/\ Received(r)
         /\ reqs[r].query = <<NetWorthQuestion>>
         /\ reqs[r].permissions = <<[assets |-> TRUE, liabilities |-> TRUE]>>) =>
            /\ Len(reqs[r].calls) >= 1
            /\ reqs[r].calls[1].user.question = NetWorthQuestion
            /\ PromptSummary(r) =
                   [totalAssets |-> 4955000, totalLiabilities |-> 3745000,
                    calculatedNetWorth |-> 1210000]

\* The example request, after its provider call failed.
C7_Witness ==
    /\ reqs[1].query = <<NetWorthQuestion>>
    /\ reqs[1].permissions = <<[assets |-> TRUE, liabilities |-> TRUE]>>
    /\ reqs[1].pc = "done" /\ ProviderFailed(1)
    /\ PromptSummary(1).calculatedNetWorth = 1210000

\* C8: the record never differs from its value at start-up, and every
\* GET /api/financial-data is answered 200 with that whole record.
C8_RecordNeverChanges ==
    /\ mockFinancialData = InitialFinancialData
    /\ lastGet # <<>> => lastGet = <<[status |-> 200, body |-> InitialFinancialData]>>

\* A GET answered while one chat request has failed upstream and another,
\* with other permissions, is still suspended.
C8_Witness ==
    /\ lastGet # <<>>
    /\ \E r, s \in Reqs :
          /\ reqs[r].pc = "done" /\ Validated(r) /\ Status(r) = 500
          /\ reqs[s].pc = "awaitGenerate"
          /\ reqs[s].permissions # reqs[r].permissions

\* The prompt request r passed to the provider is the preamble, the permitted
\* categories of the record with the summary of those, and r's question.
PromptIsOfOwnInputs(r) ==
    LET prompt == reqs[r].calls[1]
        shown == PermittedCategories(r)
    IN  /\ prompt.system = SystemPrompt
        /\ prompt.user.question = reqs[r].query[1]
        /\ DOMAIN prompt.user.data = shown \cup {"summary"}
        /\ \A k \in shown : prompt.user.data[k] = InitialFinancialData[k]
        /\ prompt.user.data["summary"] =
              [totalAssets |->
                   IF "assets" \in shown
                   THEN SumOfAmounts(InitialFinancialData["assets"]) ELSE 0,
               totalLiabilities |->
                   IF "liabilities" \in shown
                   THEN SumOfAmounts(InitialFinancialData["liabilities"]) ELSE 0,
               calculatedNetWorth |->
                   (IF "assets" \in shown
                    THEN SumOfAmounts(InitialFinancialData["assets"]) ELSE 0)
                   - (IF "liabilities" \in shown
                      THEN SumOfAmounts(InitialFinancialData["liabilities"]) ELSE 0)]

\* C9: for a validated request the provider is invoked exactly once, with
\* the fully rendered prompt; never a second time, also not after a failure.
C9_ProviderCalledExactlyOnce ==
    \A r \in Reqs :
        Validated(r) =>
            /\ Len(reqs[r].calls) = 1
            /\ PromptIsOfOwnInputs(r)

\* A request answered 500 after its one provider call was rejected.
C9_Witness ==
    /\ Validated(1) /\ reqs[1].pc = "done"
    /\ reqs[1].result # <<>> /\ Outcome(1).kind = "generateRejects"
    /\ Status(1) = 500 /\ Len(reqs[1].calls) = 1

\* The response the outcome of a request's own provider call calls for.
ResponseFor(outcome) ==
    IF outcome.kind = "text"
    THEN [status |-> 200, body |-> [response |-> outcome.v]]
    ELSE [status |-> 500, body |-> [error |-> GenericError]]

\* C10: with several requests in flight, each request's prompt is that of its
\* own query and permissions, and each response is that of its own inputs
\* and of the outcome of its own provider call.
C10_RequestsAreIsolated ==
    \A r \in Reqs :
        /\ Validated(r) => reqs[r].calls = <<reqs[r].calls[1]>> /\ PromptIsOfOwnInputs(r)
        /\ (Validated(r) /\ reqs[r].pc = "done") =>
               reqs[r].res = <<ResponseFor(Outcome(r))>>
        /\ (Received(r) /\ ~Validated(r)) => reqs[r].res # <<>> /\ Status(r) = 400

\* Two requests with different bodies: the first was resumed and answered
\* while the second, whose provider call gave something else, is suspended.
C10_Witness ==
    \E r, s \in Reqs :
        /\ r < s
        /\ reqs[r].pc = "done" /\ ProviderSucceeded(r) /\ Status(r) = 200
        /\ reqs[s].pc = "awaitResponse" /\ reqs[s].result # reqs[r].result
        /\ reqs[s].query # reqs[r].query
        /\ reqs[s].permissions # reqs[r].permissions

====
